---- MODULE Spec2Model ----
(***************************************************************************)
(* A model of the kasper ElasticsearchKeyValueStore                        *)
(* (src/elasticsearch_kv.go), of the word-count example processor          *)
(* (src/unnamed/part_000) and of the partition processor's commit          *)
(* protocol (spec.md 4.4).                                                 *)
(***************************************************************************)
EXTENDS Integers, Sequences, FiniteSets, TLC

VARIABLES
    docs,          \* the Elasticsearch index/type: document id -> _source
    lastWrite,     \* history: per key, its latest write (Nil: none, or Deleted)
    clean,         \* history: every Put, PutAll and Delete so far succeeded
    lastOp,        \* the last store call: its arguments, the fault, its return
    bulkKvs,       \* the kvs of one large PutAll
    bulkAnswers,   \* how the backend answers each request of that PutAll
    bulkDone,      \* that PutAll has returned
    bulkOut,       \* what it returned
    wordCounts,    \* WordCountExample.wordCounts: word -> count
    sent,          \* the OutgoingMessages handed to sender.Send, in order
    records,       \* history: the values of the records processed, in order
    ppState,       \* the partition processor's state (spec.md 4.4)
    resumeTo,      \* the flushing state a retry-backoff resumes
    retries,       \* retries spent in the current commit protocol
    lastConsumedOffset,
    lastProcessedOffset,
    lastMarkedOffset,
    outgoingBuffer, \* the OutgoingMessages not yet flushed to the broker
    touched,       \* the stores Process wrote to since the last commit
    acked,         \* history: the messages the broker acknowledged
    emitted,       \* history: the messages Process emitted, with their offset
    mutated,       \* history: <<store, offset>> for each store a Process wrote to
    durable        \* history: the <<store, offset>> writes a Flush made durable

storeVars == <<docs, lastWrite, clean, lastOp>>
bulkVars == <<bulkKvs, bulkAnswers, bulkDone, bulkOut>>
wordVars == <<wordCounts, sent, records>>

commitVars ==
    <<ppState, resumeTo, retries, lastConsumedOffset, lastProcessedOffset, lastMarkedOffset,
      outgoingBuffer, touched, acked, emitted, mutated, durable>>

vars == <<storeVars, bulkVars, wordVars, commitVars>>

(************************** bounds and constants ***************************)

\* longest key list handed to GetAll
MaxKeys == 2
\* longest KeyValue list handed to PutAll
MaxKvs == 2
\* longest KeyValue list of the large PutAll
MaxBulkItems == 7
\* longest input line of the word count, in characters
MaxLineLen == 3
\* most records one word-count processor handles
MaxRecords == 2
\* highest input offset of the partition
MaxOffset == 2
\* most OutgoingMessages one Process call sends
MaxSends == 1
\* retries of a flush before the partition processor fails
MaxRetries == 1

maxBulkErrorReasons == 5

\* A key that follows the index/type/id addressing rule and one that does not
\* (TestElasticsearchKeyValueStore_InvalidKey uses "foo"). The store hands
\* either to the client as the document id.
ValidKeys == {"kasper/dragon/falkor"}
MalformedKeys == {"foo"}
Keys == ValidKeys \cup MalformedKeys

\* Document bodies ([]byte values holding JSON).
Values == {"{\"color\":\"white\"}", "{\"color\":\"red\"}"}

\* Go's nil []byte / nil pointer; also "no document" in the index.
Nil == "<nil>"

\* history only: the key's latest write was followed by a Delete
Deleted == "<deleted>"

SeqsUpTo(S, n) == UNION {[1..m -> S] : m \in 0..n}

Range(s) == {s[i] : i \in 1..Len(s)}

(******************************** errors ***********************************)

\* error values: the nil error, *elastic.Error (with its HTTP status), the
\* transport's *url.Error, the context's deadline error, and the error
\* createBulkError builds with fmt.Errorf (its text kept as the reasons list).
NoErr == [type |-> "nil", status |-> 0, reasons |-> <<>>]
ElasticError(status) == [type |-> "*elastic.Error", status |-> status, reasons |-> <<>>]
UrlError == [type |-> "*url.Error", status |-> 0, reasons |-> <<>>]
DeadlineExceeded == [type |-> "context.deadlineExceededError", status |-> 0, reasons |-> <<>>]

\* What the backend call can meet: nothing, a 5xx answer, a network failure,
\* a timeout of the request's context.
Faults == {"none", "5xx", "net", "timeout"}

FaultError(fault) ==
    CASE fault = "5xx" -> ElasticError(503)
      [] fault = "net" -> UrlError
      [] fault = "timeout" -> DeadlineExceeded
      [] OTHER -> NoErr

\* fmt.Sprintf("%s", err)
ErrorString(err) ==
    CASE err.type = "nil" -> "%!s(<nil>)"
      [] err.type = "*elastic.Error" /\ err.status = 404 -> "elastic: Error 404 (Not Found)"
      [] err.type = "*elastic.Error" /\ err.status = 503 -> "elastic: Error 503 (Service Unavailable)"
      [] err.type = "*elastic.Error" -> "elastic: Error"
      [] err.type = "*url.Error" -> "Get http://localhost:9200: dial tcp: connection refused"
      [] err.type = "context.deadlineExceededError" -> "context deadline exceeded"
      [] OTHER -> "PutAll failed for some requests:"

(************************** what a call returns ****************************)

KeyValue(key, value) == [Key |-> key, Value |-> value]

\* the zero KeyValue that make([]KeyValue, n) fills a slice with
ZeroKeyValue == KeyValue("", Nil)

Returned(value, err) == [kind |-> "return", value |-> value, kvs |-> <<>>, err |-> err]
ReturnedKvs(kvs, err) == [kind |-> "return", value |-> Nil, kvs |-> kvs, err |-> err]
Panicked == [kind |-> "panic", value |-> Nil, kvs |-> <<>>, err |-> NoErr]

(******************* the Elasticsearch client's answers *******************)

NoDocs == [k \in Keys |-> Nil]

\* client.Get()...Do: the document, or "not found", which the client reports
\* as a 404 *elastic.Error or as a response with Found = false.
EsGet(d, id, fault, notFoundAsError) ==
    IF fault # "none"
    THEN [err |-> FaultError(fault), Found |-> FALSE, Source |-> Nil]
    ELSE IF d[id] = Nil
    THEN IF notFoundAsError
         THEN [err |-> ElasticError(404), Found |-> FALSE, Source |-> Nil]
         ELSE [err |-> NoErr, Found |-> FALSE, Source |-> Nil]
    ELSE [err |-> NoErr, Found |-> TRUE, Source |-> d[id]]

\* client.MultiGet()...Do: one doc per requested item, in request order.
EsMultiGet(d, ids, fault) ==
    IF fault # "none"
    THEN [err |-> FaultError(fault), Docs |-> <<>>]
    ELSE [err |-> NoErr,
          Docs |-> [i \in 1..Len(ids) |->
                     [Id |-> ids[i], Found |-> d[ids[i]] # Nil, Source |-> d[ids[i]]]]]

\* client.Index()...BodyString(body).Do: the document is created or replaced;
\* the body is the value's bytes, which the index keeps as the _source.
EsIndex(d, id, body, fault) ==
    IF fault # "none"
    THEN [err |-> FaultError(fault), docs |-> d]
    ELSE [err |-> NoErr, docs |-> [d EXCEPT ![id] = body]]

\* client.Delete()...Do: a missing document is a 404 *elastic.Error.
EsDelete(d, id, fault) ==
    IF fault # "none"
    THEN [err |-> FaultError(fault), docs |-> d]
    ELSE IF d[id] = Nil
    THEN [err |-> ElasticError(404), docs |-> d]
    ELSE [err |-> NoErr, docs |-> [d EXCEPT ![id] = Nil]]

\* client.Flush("_all").WaitIfOngoing(true).Do
EsFlush(fault) == [err |-> FaultError(fault)]

\* One item of a bulk response: the id, the HTTP status of that item and the
\* reason of its error (Nil when the item carries no error details).
BulkItem(id, status, reason) == [Id |-> id, Status |-> status, Reason |-> reason]

\* How the backend answers one request of a bulk: it indexes the document,
\* rejects it with error details (429, queue full), or fails it with a bare
\* status and no error details.
ItemAnswers == {"indexed", "rejected", "bare"}

RECURSIVE ApplyBulk(_, _, _, _)
\* The index after the bulk's index requests i..Len(kvs) ran in order, the
\* failed ones left out.
ApplyBulk(d, kvs, answers, i) ==
    IF i > Len(kvs)
    THEN d
    ELSE ApplyBulk(IF answers[i] = "indexed" THEN [d EXCEPT ![kvs[i].Key] = kvs[i].Value] ELSE d,
                   kvs, answers, i + 1)

\* client.Bulk()...Do: every request is answered by one item, in order.
EsBulk(d, kvs, fault, answers) ==
    IF fault # "none"
    THEN [err |-> FaultError(fault), Errors |-> FALSE, Items |-> <<>>, docs |-> d]
    ELSE [err |-> NoErr,
          Errors |-> \E i \in 1..Len(kvs) : answers[i] # "indexed",
          Items |-> [i \in 1..Len(kvs) |->
                      CASE answers[i] = "rejected" ->
                             BulkItem(kvs[i].Key, 429, "es_rejected_execution_exception")
                        [] answers[i] = "bare" -> BulkItem(kvs[i].Key, 503, Nil)
                        [] OTHER -> BulkItem(kvs[i].Key, 201, Nil)],
          docs |-> ApplyBulk(d, kvs, answers, 1)]

\* BulkResponse.Failed(): the items whose status is not 2xx, in order.
Failed(response) == SelectSeq(response.Items, LAMBDA item : ~(item.Status >= 200 /\ item.Status <= 299))

(************************* the store's operations **************************)

\* A reason line of the aggregated error, and its overflow tail.
ReasonLine(item) == [kind |-> "id = %s, error = %s", id |-> item.Id, n |-> 0]
OmittedLine(n) == [kind |-> "(omitted %d more errors)", id |-> "", n |-> n]

RECURSIVE BulkErrorLoop(_, _, _)
\* The loop of createBulkError from index i (0-based, as in the source).
BulkErrorLoop(failed, i, reasons) ==
    IF i >= Len(failed)
    THEN reasons
    ELSE LET item == failed[i + 1]
             named == IF item.Reason # Nil THEN Append(reasons, ReasonLine(item)) ELSE reasons
         IN IF i = maxBulkErrorReasons - 1
            THEN Append(named, OmittedLine(Len(failed) - maxBulkErrorReasons))
            ELSE BulkErrorLoop(failed, i + 1, named)

\* createBulkError whose loop has no cap: every failure is named, no tail.
createBulkErrorNoCap(response) ==
    [type |-> "*errors.errorString", status |-> 0,
     reasons |-> [i \in 1..Len(Failed(response)) |-> ReasonLine(Failed(response)[i])]]

createBulkError(response) ==
    [type |-> "*errors.errorString", status |-> 0,
     reasons |-> BulkErrorLoop(Failed(response), 0, <<>>)]

\* Each operation gives what it returns, how many requests it sent to the
\* backend, and the index afterwards.
Outcome(res, requests, d) == [res |-> res, requests |-> requests, docs |-> d]

\* Get without its test for the client's 404 error.
GetWithout404Test(d, key, fault, notFoundAsError) ==
    LET rawValue == EsGet(d, key, fault, notFoundAsError)
        err == rawValue.err
    IN Outcome(IF err # NoErr THEN Returned(Nil, err)
               ELSE IF ~rawValue.Found THEN Returned(Nil, NoErr)
               ELSE Returned(rawValue.Source, NoErr),
               1, d)

Get(d, key, fault, notFoundAsError) ==
    LET rawValue == EsGet(d, key, fault, notFoundAsError)
        err == rawValue.err
    IN Outcome(IF ErrorString(err) = "elastic: Error 404 (Not Found)" THEN Returned(Nil, NoErr)
               ELSE IF err # NoErr THEN Returned(Nil, err)
               ELSE IF ~rawValue.Found THEN Returned(Nil, NoErr)
               ELSE Returned(rawValue.Source, NoErr),
               1, d)

\* GetAll without its early return on an empty key list.
GetAllAlwaysAsks(d, keys, fault) ==
    LET response == EsMultiGet(d, keys, fault)
    IN IF response.err # NoErr
       THEN Outcome(ReturnedKvs(<<>>, response.err), 1, d)
       ELSE Outcome(ReturnedKvs([i \in 1..Len(keys) |->
                                   IF i <= Len(response.Docs) /\ response.Docs[i].Found
                                   THEN KeyValue(keys[i], response.Docs[i].Source)
                                   ELSE ZeroKeyValue],
                                NoErr),
                    1, d)

GetAll(d, keys, fault) ==
    IF Len(keys) = 0
    THEN Outcome(ReturnedKvs(<<>>, NoErr), 0, d)
    ELSE LET response == EsMultiGet(d, keys, fault)
         IN IF response.err # NoErr
            THEN Outcome(ReturnedKvs(<<>>, response.err), 1, d)
            ELSE Outcome(ReturnedKvs([i \in 1..Len(keys) |->
                                        IF i <= Len(response.Docs) /\ response.Docs[i].Found
                                        THEN KeyValue(keys[i], response.Docs[i].Source)
                                        ELSE ZeroKeyValue],
                                     NoErr),
                         1, d)

Put(d, key, value, fault) ==
    LET r == EsIndex(d, key, value, fault)
    IN Outcome(Returned(Nil, r.err), 1, r.docs)

\* PutAll whose loop adds every request under the first kv's id.
PutAllUnderFirstId(d, kvs, fault, answers) ==
    IF Len(kvs) = 0
    THEN Outcome(Returned(Nil, NoErr), 0, d)
    ELSE LET response == EsBulk(d, [i \in 1..Len(kvs) |-> KeyValue(kvs[1].Key, kvs[i].Value)],
                                fault, answers)
         IN Outcome(IF response.err # NoErr THEN Returned(Nil, response.err)
                    ELSE IF response.Errors THEN Returned(Nil, createBulkError(response))
                    ELSE Returned(Nil, NoErr),
                    1, response.docs)

PutAll(d, kvs, fault, answers) ==
    IF Len(kvs) = 0
    THEN Outcome(Returned(Nil, NoErr), 0, d)
    ELSE LET response == EsBulk(d, kvs, fault, answers)
         IN Outcome(IF response.err # NoErr THEN Returned(Nil, response.err)
                    ELSE IF response.Errors THEN Returned(Nil, createBulkError(response))
                    ELSE Returned(Nil, NoErr),
                    1, response.docs)

\* Delete that returns the client's 404 like any other *elastic.Error.
DeleteReturns404(d, key, fault) ==
    LET r == EsDelete(d, key, fault)
        err == r.err
    IN Outcome(IF err = NoErr THEN Returned(Nil, err)
               ELSE IF err.type # "*elastic.Error" THEN Panicked
               ELSE Returned(Nil, err),
               1, r.docs)

Delete(d, key, fault) ==
    LET r == EsDelete(d, key, fault)
        err == r.err
    IN Outcome(IF err = NoErr THEN Returned(Nil, err)
               ELSE IF err.type # "*elastic.Error" THEN Panicked
               ELSE IF err.status = 404 THEN Returned(Nil, NoErr)
               ELSE Returned(Nil, err),
               1, r.docs)

\* Flush that drops the client's error and returns nil.
FlushDropsError(d, fault) == Outcome(Returned(Nil, NoErr), 1, d)

Flush(d, fault) == Outcome(Returned(Nil, EsFlush(fault).err), 1, d)

(*********************** the store as a state machine **********************)

\* The record of a store call: its arguments, the fault the backend call
\* met, whether the key had a document before, whether the index changed,
\* the requests sent, what it returned; for a GetAll, the kvs of the
\* successful PutAll just before it when it asks that PutAll's keys; for a
\* Delete, whether it repeats a successful Delete of the same key.
NoOp ==
    [op |-> "none", key |-> "", value |-> Nil, keys |-> <<>>, kvs |-> <<>>,
     fault |-> "none", existed |-> FALSE, changed |-> FALSE, requests |-> 0,
     res |-> Returned(Nil, NoErr), putBefore |-> <<>>, repeated |-> FALSE]

Succeeded(o) == o.res.kind = "return" /\ o.res.err = NoErr

KeysOf(kvs) == [i \in 1..Len(kvs) |-> kvs[i].Key]

DistinctKeys(kvs) == \A i, j \in 1..Len(kvs) : kvs[i].Key = kvs[j].Key => i = j

RECURSIVE WriteAll(_, _, _)
\* history: the latest write per key once kvs[i..] were written in order
WriteAll(w, kvs, i) ==
    IF i > Len(kvs) THEN w ELSE WriteAll([w EXCEPT ![kvs[i].Key] = kvs[i].Value], kvs, i + 1)

\* One store call: `call` is the operation's outcome on the current index,
\* `written` the history of writes if the call succeeds, `writes` whether
\* the operation is a write.
Call(o, call, written, writes) ==
    LET done == [o EXCEPT !.existed = (o.key \in Keys /\ docs[o.key] # Nil),
                          !.changed = (call.docs # docs),
                          !.requests = call.requests,
                          !.res = call.res,
                          !.putBefore = IF /\ o.op = "GetAll"
                                           /\ lastOp.op = "PutAll"
                                           /\ Succeeded(lastOp)
                                           /\ KeysOf(lastOp.kvs) = o.keys
                                        THEN lastOp.kvs
                                        ELSE <<>>,
                          !.repeated = /\ o.op = "Delete"
                                       /\ lastOp.op = "Delete"
                                       /\ Succeeded(lastOp)
                                       /\ lastOp.key = o.key]
    IN /\ docs' = call.docs
       /\ lastOp' = done
       /\ clean' = (clean /\ (writes => Succeeded(done)))
       /\ lastWrite' = IF clean' THEN (IF writes THEN written ELSE lastWrite) ELSE NoDocs
       /\ UNCHANGED <<bulkVars, wordVars, commitVars>>

CallGet ==
    \E key \in Keys, fault \in Faults, notFoundAsError \in BOOLEAN :
        Call([NoOp EXCEPT !.op = "Get", !.key = key, !.fault = fault],
             Get(docs, key, fault, notFoundAsError), lastWrite, FALSE)

CallGetAll ==
    \E keys \in SeqsUpTo(Keys, MaxKeys), fault \in Faults :
        Call([NoOp EXCEPT !.op = "GetAll", !.keys = keys, !.fault = fault],
             GetAll(docs, keys, fault), lastWrite, FALSE)

CallPut ==
    \E key \in Keys, value \in Values, fault \in Faults :
        Call([NoOp EXCEPT !.op = "Put", !.key = key, !.value = value, !.fault = fault],
             Put(docs, key, value, fault), [lastWrite EXCEPT ![key] = value], TRUE)

CallPutAll ==
    \E kvs \in SeqsUpTo([Key : Keys, Value : Values], MaxKvs), fault \in Faults :
        \E answers \in [1..Len(kvs) -> {"indexed", "rejected"}] :
            /\ fault # "none" => \A i \in 1..Len(kvs) : answers[i] = "indexed"
            /\ Call([NoOp EXCEPT !.op = "PutAll", !.kvs = kvs, !.fault = fault],
                    PutAll(docs, kvs, fault, answers), WriteAll(lastWrite, kvs, 1), TRUE)

CallDelete ==
    \E key \in Keys, fault \in Faults :
        Call([NoOp EXCEPT !.op = "Delete", !.key = key, !.fault = fault],
             Delete(docs, key, fault), [lastWrite EXCEPT ![key] = Deleted], TRUE)

CallFlush ==
    \E fault \in Faults :
        Call([NoOp EXCEPT !.op = "Flush", !.fault = fault], Flush(docs, fault), lastWrite, FALSE)

\* NewElasticsearchKeyValueStore on a fresh index: no document, no call yet.
InitStore ==
    /\ docs = NoDocs
    /\ lastWrite = NoDocs
    /\ clean = TRUE
    /\ lastOp = NoOp

NoBulk ==
    /\ bulkKvs = <<>>
    /\ bulkAnswers = <<>>
    /\ bulkDone = FALSE
    /\ bulkOut = Outcome(Returned(Nil, NoErr), 0, NoDocs)

\* mkMessageProcessor: &WordCountExample{make(map[string]int)}
InitWords ==
    /\ wordCounts = <<>>
    /\ sent = <<>>
    /\ records = <<>>

\* A partition processor at container start: idle, nothing consumed.
InitCommit ==
    /\ ppState = "idle"
    /\ resumeTo = "idle"
    /\ retries = 0
    /\ lastConsumedOffset = 0
    /\ lastProcessedOffset = 0
    /\ lastMarkedOffset = 0
    /\ outgoingBuffer = <<>>
    /\ touched = {}
    /\ acked = {}
    /\ emitted = {}
    /\ mutated = {}
    /\ durable = {}

Init == InitStore /\ NoBulk /\ InitWords /\ InitCommit

Next ==
    \/ CallGet
    \/ CallGetAll
    \/ CallPut
    \/ CallPutAll
    \/ CallDelete
    \/ CallFlush

Spec == Init /\ [][Next]_vars

(************************* PutAll on a large batch *************************)

\* n KeyValues, their keys alternating.
BulkKvs(n) ==
    [i \in 1..n |-> KeyValue(IF i % 2 = 1 THEN "kasper/dragon/falkor" ELSE "foo",
                             "{\"color\":\"white\"}")]

InitBulk ==
    /\ InitStore
    /\ \E n \in 1..MaxBulkItems :
        /\ bulkKvs = BulkKvs(n)
        /\ bulkAnswers \in [1..n -> ItemAnswers]
    /\ bulkDone = FALSE
    /\ bulkOut = Outcome(Returned(Nil, NoErr), 0, NoDocs)
    /\ InitWords
    /\ InitCommit

CallPutAllBulk ==
    /\ ~bulkDone
    /\ bulkDone' = TRUE
    /\ bulkOut' = PutAll(docs, bulkKvs, "none", bulkAnswers)
    /\ docs' = bulkOut'.docs
    /\ UNCHANGED <<lastWrite, clean, lastOp, bulkKvs, bulkAnswers, wordVars, commitVars>>

NextBulk == CallPutAllBulk

SpecBulk == InitBulk /\ [][NextBulk]_vars

(************************ the word-count processor *************************)

\* A line is a string, kept as its sequence of characters: a lower-case
\* letter, an upper-case letter, the space.
Alphabet == {"a", "A", " "}

Lines == SeqsUpTo(Alphabet, MaxLineLen)

\* strings.ToLower
ToLowerChar(c) == IF c = "A" THEN "a" ELSE c
ToLower(word) == [i \in 1..Len(word) |-> ToLowerChar(word[i])]

RECURSIVE SplitFrom(_, _, _, _)
\* strings.Split(line, " ") from character i on: `cur` is the substring since
\* the last separator, `out` the substrings before it.
SplitFrom(line, i, cur, out) ==
    IF i > Len(line)
    THEN Append(out, cur)
    ELSE IF line[i] = " "
    THEN SplitFrom(line, i + 1, <<>>, Append(out, cur))
    ELSE SplitFrom(line, i + 1, Append(cur, line[i]), out)

Split(line) == SplitFrom(line, 1, <<>>, <<>>)

WordCount(word, count) == [Word |-> word, Count |-> count]

OutgoingMessage(topic, partition, key, value) ==
    [Topic |-> topic, Partition |-> partition, Key |-> key, Value |-> value]

RECURSIVE ProcessLoop(_, _, _, _)
\* The loop of Process over words[i..]: the map and the messages sent.
ProcessLoop(words, i, counts, out) ==
    IF i > Len(words)
    THEN [wordCounts |-> counts, sent |-> out]
    ELSE LET word == ToLower(words[i])
             found == word \in DOMAIN counts
             count == IF ~found THEN 1 ELSE counts[word] + 1
             put == [w \in DOMAIN counts \cup {word} |-> IF w = word THEN count ELSE counts[w]]
         IN ProcessLoop(words, i + 1, put,
                        Append(out, OutgoingMessage("word-counts", 0, word, WordCount(word, count))))

\* Process without the map update: every word is counted from the map as it
\* was when the record arrived.
ProcessStaleCounts(line, counts, out) ==
    LET words == Split(line)
    IN [wordCounts |-> counts,
        sent |-> out \o [i \in 1..Len(words) |->
                          LET word == ToLower(words[i])
                          IN OutgoingMessage("word-counts", 0, word,
                               WordCount(word, IF word \in DOMAIN counts THEN counts[word] + 1 ELSE 1))]]

Process(line, counts, out) == ProcessLoop(Split(line), 1, counts, out)

HandleRecord ==
    /\ Len(records) < MaxRecords
    /\ \E line \in Lines :
        LET after == Process(line, wordCounts, sent)
        IN /\ wordCounts' = after.wordCounts
           /\ sent' = after.sent
           /\ records' = Append(records, line)
    /\ UNCHANGED <<storeVars, bulkVars, commitVars>>

NextWords == HandleRecord

SpecWords == Init /\ [][NextWords]_vars

(******************** the partition processor's commit ********************)

\* The store handles the user's processor writes to.
Stores == {"store-a", "store-b"}

\* Cycle per record, steps 1-2: the next record is decoded and handed to Process.
StartProcess ==
    /\ ppState = "idle"
    /\ lastConsumedOffset < MaxOffset
    /\ lastConsumedOffset' = lastConsumedOffset + 1
    /\ ppState' = "processing"
    /\ UNCHANGED <<resumeTo, retries, lastProcessedOffset, lastMarkedOffset, outgoingBuffer,
                   touched, acked, emitted, mutated, durable>>
    /\ UNCHANGED <<storeVars, bulkVars, wordVars>>

\* Cycle per record, steps 3-4: Process sent some messages into the buffer
\* and wrote to some stores, and returns.
FinishProcess ==
    /\ ppState = "processing"
    /\ \E n \in 0..MaxSends, written \in SUBSET Stores :
        LET msgs == [i \in 1..n |-> [offset |-> lastConsumedOffset, seq |-> i]]
        IN /\ outgoingBuffer' = outgoingBuffer \o msgs
           /\ emitted' = emitted \cup Range(msgs)
           /\ touched' = touched \cup written
           /\ mutated' = mutated \cup {<<s, lastConsumedOffset>> : s \in written}
    /\ lastProcessedOffset' = lastConsumedOffset
    /\ ppState' = "idle"
    /\ UNCHANGED <<resumeTo, retries, lastConsumedOffset, lastMarkedOffset, acked, durable>>
    /\ UNCHANGED <<storeVars, bulkVars, wordVars>>

\* Batch boundary: the commit protocol starts with the producer flush.
CloseBatch ==
    /\ ppState = "idle"
    /\ lastMarkedOffset < lastProcessedOffset
    /\ ppState' = "flushing-producer"
    /\ retries' = 0
    /\ UNCHANGED <<resumeTo, lastConsumedOffset, lastProcessedOffset, lastMarkedOffset,
                   outgoingBuffer, touched, acked, emitted, mutated, durable>>
    /\ UNCHANGED <<storeVars, bulkVars, wordVars>>

\* Commit protocol, step 1: the buffer is drained to the broker and every
\* message acknowledged, or the flush fails and the buffer is retained.
FlushProducer ==
    /\ ppState = "flushing-producer"
    /\ \E ok \in BOOLEAN :
        IF ok
        THEN /\ acked' = acked \cup Range(outgoingBuffer)
             /\ outgoingBuffer' = <<>>
             /\ ppState' = "flushing-stores"
             /\ UNCHANGED resumeTo
        ELSE /\ ppState' = "retry-backoff"
             /\ resumeTo' = "flushing-producer"
             /\ UNCHANGED <<acked, outgoingBuffer>>
    /\ UNCHANGED <<retries, lastConsumedOffset, lastProcessedOffset, lastMarkedOffset,
                   touched, emitted, mutated, durable>>
    /\ UNCHANGED <<storeVars, bulkVars, wordVars>>

\* Commit protocol, step 2: Flush is called on every touched store; a Flush
\* that meets no fault makes that store's writes durable; the step succeeds
\* when every Flush returned a nil error.
FlushStores ==
    /\ ppState = "flushing-stores"
    /\ \E faults \in [touched -> Faults] :
        LET returned == [s \in touched |-> Flush(docs, faults[s]).res]
            ok == \A s \in touched : returned[s].kind = "return" /\ returned[s].err = NoErr
        IN /\ durable' = durable \cup {w \in mutated : w[1] \in touched /\ faults[w[1]] = "none"}
           /\ IF ok
              THEN /\ touched' = {}
                   /\ ppState' = "marking"
                   /\ UNCHANGED resumeTo
              ELSE /\ ppState' = "retry-backoff"
                   /\ resumeTo' = "flushing-stores"
                   /\ UNCHANGED touched
    /\ UNCHANGED <<retries, lastConsumedOffset, lastProcessedOffset, lastMarkedOffset,
                   outgoingBuffer, acked, emitted, mutated>>
    /\ UNCHANGED <<storeVars, bulkVars, wordVars>>

\* retry-backoff (bounded), then resume the flush that failed
Resume ==
    /\ ppState = "retry-backoff"
    /\ retries < MaxRetries
    /\ retries' = retries + 1
    /\ ppState' = resumeTo
    /\ UNCHANGED <<resumeTo, lastConsumedOffset, lastProcessedOffset, lastMarkedOffset,
                   outgoingBuffer, touched, acked, emitted, mutated, durable>>
    /\ UNCHANGED <<storeVars, bulkVars, wordVars>>

\* on exhaustion: failed (terminal), nothing more is marked
Exhaust ==
    /\ ppState = "retry-backoff"
    /\ retries >= MaxRetries
    /\ ppState' = "failed"
    /\ UNCHANGED <<resumeTo, retries, lastConsumedOffset, lastProcessedOffset, lastMarkedOffset,
                   outgoingBuffer, touched, acked, emitted, mutated, durable>>
    /\ UNCHANGED <<storeVars, bulkVars, wordVars>>

\* Commit protocol, step 3: lastMarkedOffset advances to lastProcessedOffset.
Mark ==
    /\ ppState = "marking"
    /\ lastMarkedOffset' = lastProcessedOffset
    /\ ppState' = "idle"
    /\ UNCHANGED <<resumeTo, retries, lastConsumedOffset, lastProcessedOffset,
                   outgoingBuffer, touched, acked, emitted, mutated, durable>>
    /\ UNCHANGED <<storeVars, bulkVars, wordVars>>

NextCommit ==
    \/ StartProcess
    \/ FinishProcess
    \/ CloseBatch
    \/ FlushProducer
    \/ FlushStores
    \/ Resume
    \/ Exhaust
    \/ Mark

SpecCommit == Init /\ [][NextCommit]_vars

(***************************** store claims ********************************)

\* what Get is to return for a key, given the history of writes
Latest(k) == IF lastWrite[k] \in Values THEN lastWrite[k] ELSE Nil

\* C1: after any sequence of successful Put, PutAll and Delete calls, a Get
\* whose backend call meets no fault returns (v, nil) with v the value of the
\* key's most recent write, and (nil, nil) if the key was never written or
\* was deleted since its last write.
C1_GetReturnsLatestWrite ==
    (lastOp.op = "Get" /\ lastOp.fault = "none" /\ clean)
        => lastOp.res = Returned(Latest(lastOp.key), NoErr)

\* C1 witness: a Get of a key that was written and then deleted returned
\* (nil, nil) while the other key still holds its value.
C1_Witness ==
    /\ lastOp.op = "Get" /\ lastOp.fault = "none" /\ clean
    /\ lastWrite[lastOp.key] = Deleted
    /\ lastOp.res = Returned(Nil, NoErr)
    /\ \E k \in Keys : lastWrite[k] \in Values

\* the requested keys that have a document
Existing(keys) == {k \in Range(keys) : docs[k] # Nil}

\* C2: GetAll on a non-empty key list returns exactly one KeyValue per
\* requested key that exists, with its stored value, and none for a key that
\* does not exist: its length is the number of existing requested keys.
C2_GetAllOnlyFound ==
    (lastOp.op = "GetAll" /\ lastOp.fault = "none" /\ Len(lastOp.keys) > 0)
        => /\ Len(lastOp.res.kvs) = Cardinality(Existing(lastOp.keys))
           /\ Range(lastOp.res.kvs) = {KeyValue(k, docs[k]) : k \in Existing(lastOp.keys)}

\* the keys a call was given
KeysGiven(o) ==
    CASE o.op \in {"Get", "Put", "Delete"} -> {o.key}
      [] o.op = "GetAll" -> Range(o.keys)
      [] o.op = "PutAll" -> Range(KeysOf(o.kvs))
      [] OTHER -> {}

\* C4: Get, Put, GetAll, PutAll and Delete called with a key that violates
\* the index/type/id rule panic, and neither read nor modify the store.
C4_MalformedKeyPanics ==
    (KeysGiven(lastOp) \cap MalformedKeys # {})
        => lastOp.res.kind = "panic" /\ lastOp.requests = 0 /\ ~lastOp.changed

\* C6: when the backend call of a store operation fails with a transient
\* error (5xx, network failure, timeout), the operation returns that error
\* to its caller, whatever the error's concrete type.
C6_TransientErrorReturned ==
    (lastOp.fault # "none" /\ lastOp.requests > 0)
        => lastOp.res.kind = "return" /\ lastOp.res.err = FaultError(lastOp.fault)

\* C7: a Delete of a key that has no document (never written, or already
\* deleted) returns nil and leaves the store as it was, so a second
\* Delete(k) right after a Delete(k) gives the same result and state.
C7_DeleteAbsentIsSuccess ==
    (lastOp.op = "Delete" /\ lastOp.fault = "none" /\ (~lastOp.existed \/ lastOp.repeated))
        => /\ lastOp.res = Returned(Nil, NoErr)
           /\ ~lastOp.changed
           /\ docs[lastOp.key] = Nil

\* C7 witness: the second of two Deletes of the same key, the other key
\* holding a document.
C7_Witness ==
    /\ lastOp.op = "Delete" /\ lastOp.fault = "none" /\ lastOp.repeated
    /\ lastOp.res = Returned(Nil, NoErr)
    /\ \E k \in Keys : docs[k] # Nil

\* C8: a successful PutAll(kvs) with distinct keys followed by
\* GetAll(keys(kvs)) returns, as a set, exactly kvs.
C8_PutAllGetAllRoundTrip ==
    (/\ lastOp.op = "GetAll" /\ lastOp.fault = "none"
     /\ lastOp.putBefore # <<>> /\ DistinctKeys(lastOp.putBefore))
        => /\ lastOp.res.err = NoErr
           /\ Range(lastOp.res.kvs) = Range(lastOp.putBefore)
           /\ Len(lastOp.res.kvs) = Len(lastOp.putBefore)

\* C8 witness: a GetAll of two keys right after the PutAll that wrote them
\* with two different values.
C8_Witness ==
    /\ lastOp.op = "GetAll" /\ lastOp.fault = "none"
    /\ Len(lastOp.putBefore) = 2 /\ DistinctKeys(lastOp.putBefore)
    /\ lastOp.putBefore[1].Value # lastOp.putBefore[2].Value
    /\ Range(lastOp.res.kvs) = Range(lastOp.putBefore)

\* C10: GetAll of an empty key list returns an empty result and a nil error
\* and sends no request to the backend, whatever the store holds.
C10_GetAllEmptyNoRequest ==
    (lastOp.op = "GetAll" /\ lastOp.keys = <<>>)
        => lastOp.res = ReturnedKvs(<<>>, NoErr) /\ lastOp.requests = 0

\* C10 witness: GetAll([]) on a store that holds documents, with the backend
\* unreachable.
C10_Witness ==
    /\ lastOp.op = "GetAll" /\ lastOp.keys = <<>> /\ lastOp.fault = "net"
    /\ lastOp.requests = 0
    /\ \A k \in Keys : docs[k] # Nil

(************************* aggregated error claims *************************)

\* the requests of the large PutAll that failed, and those among the first
\* maxBulkErrorReasons failures that carry error details
FailedRequests == {i \in 1..Len(bulkAnswers) : bulkAnswers[i] # "indexed"}
FirstFailed == {i \in FailedRequests : Cardinality({j \in FailedRequests : j < i}) < maxBulkErrorReasons}
Detailed == {i \in FirstFailed : bulkAnswers[i] = "rejected"}

NamedReasons(err) == SelectSeq(err.reasons, LAMBDA r : r.kind = "id = %s, error = %s")
OverflowTails(err) == SelectSeq(err.reasons, LAMBDA r : r.kind = "(omitted %d more errors)")

SepsOf(line) == {i \in 1..Len(line) : line[i] = " "}

\* the k-th field of a line whose spaces are at `seps`: what lies between
\* its (k-1)-th and its k-th space, fields counted from 1
Field(line, seps, k) ==
    LET from == IF k = 1 THEN 1
                ELSE 1 + CHOOSE i \in seps : Cardinality({j \in seps : j < i}) = k - 2
        to == IF k = Cardinality(seps) + 1 THEN Len(line)
              ELSE (CHOOSE i \in seps : Cardinality({j \in seps : j < i}) = k - 1) - 1
    IN SubSeq(line, from, to)

FieldsAt(line, seps) == [k \in 1..(Cardinality(seps) + 1) |-> Field(line, seps, k)]

\* the fields of a line between single spaces, empty ones included
SpaceFields(line) == FieldsAt(line, SepsOf(line))

\* the whitespace-separated words of a line: its non-empty fields
WhitespaceWords(line) == SelectSeq(SpaceFields(line), LAMBDA w : w # <<>>)

RECURSIVE WordsUpTo(_)
\* the whitespace-separated words of the first r records, in order
WordsUpTo(r) == IF r = 0 THEN <<>> ELSE WordsUpTo(r - 1) \o WhitespaceWords(records[r])

RECURSIVE LoweredFieldsUpTo(_)
\* the lower-cased fields of the first r records, in order
LoweredFieldsUpTo(r) ==
    IF r = 0 THEN <<>>
    ELSE LoweredFieldsUpTo(r - 1) \o
         [k \in 1..(Cardinality(SepsOf(records[r])) + 1) |->
             ToLower(Field(records[r], SepsOf(records[r]), k))]

\* one message per word, the count being the word's occurrences so far
Counted(words) ==
    [k \in 1..Len(words) |->
        OutgoingMessage("word-counts", 0, words[k],
            WordCount(words[k], Cardinality({j \in 1..k : words[j] = words[k]})))]

\* C9 as stated: one message per whitespace-separated word, in the order of
\* the split and of the records, key = the word, count = the occurrences of
\* that word seen so far by this instance.
C9_OnePerWhitespaceWord ==
    sent = Counted(WordsUpTo(Len(records)))

\* C9 amended: one message per field of strings.Split(line, " ") (fields
\* between single spaces, the empty fields of leading, trailing and doubled
\* spaces included), in the order of the split and of the records, key = the
\* field in lower case, count = the occurrences of that lower-cased field
\* seen so far by this instance.
C9_OnePerSpaceFieldLowered ==
    sent = Counted(LoweredFieldsUpTo(Len(records)))

\* C9 witness: two records, the first "a A" (the word twice within the
\* record, in two cases), the second with the same word again: counts 1, 2, 3.
C9_Witness ==
    /\ Len(records) = 2
    /\ records[1] = <<"a", " ", "A">>
    /\ records[2] = <<"A">>
    /\ Len(sent) = 3
    /\ \A k \in 1..3 : sent[k].Key = <<"a">> /\ sent[k].Value.Count = k

(************************* commit protocol claims **************************)

\* C5: an offset n is marked only after every OutgoingMessage emitted by
\* Process(offset = n) was acknowledged by the broker and after Flush
\* returned successfully (its writes then being durable, spec.md 4.2) on
\* every store that Process mutated for offsets <= n: producer flush, then
\* store flush, then offset mark.
C5_MarkAfterFlushes ==
    /\ \A m \in emitted : m.offset <= lastMarkedOffset => m \in acked
    /\ \A w \in mutated : w[2] <= lastMarkedOffset => w \in durable
    /\ ppState = "marking" => outgoingBuffer = <<>> /\ touched = {}
    /\ ppState = "flushing-stores" => outgoingBuffer = <<>>

\* C5 witness: offset 2 is marked after a flush had to be retried, its
\* Process having sent a message and written to a store.
C5_Witness ==
    /\ lastMarkedOffset >= 2
    /\ retries >= 1
    /\ \E m \in emitted : m.offset = lastMarkedOffset
    /\ \E w \in mutated : w[2] = lastMarkedOffset

====
